---- MODULE Spec2Model ----
(***************************************************************************)
(* Model of TourScraper (streamlit_app.py): the page fetcher, the text     *)
(* normaliser, the summary extractor and the day-by-day extractor.         *)
(*                                                                         *)
(* A Python str is a sequence of one-character strings.  The seven         *)
(* typographic code points clean_text replaces are written by name:        *)
(* "endash" U+2013, "emdash" U+2014, "rsquo" U+2019, "lsquo" U+2018,       *)
(* "ldquo" U+201C, "rdquo" U+201D, "hellip" U+2026.                        *)
(***************************************************************************)
EXTENDS Naturals, Sequences, FiniteSets

VARIABLES pc, op, arg, ret, log, html

vars == <<pc, op, arg, ret, log, html>>

(***************************************************************************)
(* Bounds of the model.                                                    *)
(***************************************************************************)
MaxCleanLen == 2
MaxDescPieces == 4
MaxTitlePieces == 4
MaxItems == 2
MaxParagraphs == 2

(***************************************************************************)
(* Python str primitives.                                                  *)
(***************************************************************************)
Whitespace == {" ", "\t", "\n"}

Digits == {"0", "1", "2", "3", "4", "5", "6", "7", "8", "9"}

\* s[i:]
Drop(s, n) == SubSeq(s, n + 1, Len(s))

\* s[:n]
Take(s, n) == SubSeq(s, 1, n)

\* s.startswith(p)
StartsWith(s, p) == Len(p) <= Len(s) /\ Take(s, Len(p)) = p

RECURSIVE LStrip(_)
LStrip(s) == IF s # <<>> /\ Head(s) \in Whitespace THEN LStrip(Tail(s)) ELSE s

RECURSIVE RStrip(_)
RStrip(s) ==
    IF s # <<>> /\ s[Len(s)] \in Whitespace THEN RStrip(Take(s, Len(s) - 1)) ELSE s

\* str.strip()
Strip(s) == RStrip(LStrip(s))

\* str.replace(old, new) for a non-empty old: every non-overlapping
\* occurrence, left to right.
RECURSIVE ReplaceFrom(_, _, _)
ReplaceFrom(s, old, new) ==
    IF s = <<>> THEN <<>>
    ELSE IF StartsWith(s, old) THEN new \o ReplaceFrom(Drop(s, Len(old)), old, new)
    ELSE <<Head(s)>> \o ReplaceFrom(Tail(s), old, new)

\* str.replace(old, new, 1): the bug the removal of arrow text could have.
ReplaceFirstOnly(s, old, new) ==
    IF old = <<>> THEN new \o s
    ELSE LET hits == {i \in 1..Len(s) : StartsWith(Drop(s, i - 1), old)}
         IN  IF hits = {} THEN s
             ELSE LET p == CHOOSE i \in hits : \A j \in hits : i <= j
                  IN  Take(s, p - 1) \o new \o Drop(s, p - 1 + Len(old))

\* '' matches before every character and at the end
RECURSIVE Interleave(_, _)
Interleave(s, new) ==
    IF s = <<>> THEN new ELSE new \o <<Head(s)>> \o Interleave(Tail(s), new)

Replace(s, old, new) ==
    IF old = <<>> THEN Interleave(s, new) ELSE ReplaceFrom(s, old, new)

\* str.split(sep) for a one-character separator: the list of fragments.
RECURSIVE Split(_, _)
Split(s, sep) ==
    IF \A i \in 1..Len(s) : s[i] # sep THEN <<s>>
    ELSE LET p == CHOOSE i \in 1..Len(s) :
                      s[i] = sep /\ \A j \in 1..(i - 1) : s[j] # sep
         IN  <<Take(s, p - 1)>> \o Split(Drop(s, p), sep)

\* sep.join(parts)
RECURSIVE Join(_, _)
Join(parts, sep) ==
    IF parts = <<>> THEN <<>>
    ELSE IF Len(parts) = 1 THEN parts[1]
    ELSE parts[1] \o sep \o Join(Tail(parts), sep)

\* [f(x) for x in xs if keep(x)] for the two comprehensions of the source
RECURSIVE StripAll(_)
StripAll(parts) ==
    IF parts = <<>> THEN <<>> ELSE <<Strip(Head(parts))>> \o StripAll(Tail(parts))

NonEmpty(s) == s # <<>>

\* Tag.get_text(strip=True): every text node stripped, empty ones skipped,
\* the rest concatenated with no separator.
GetText(nodes) == Join(SelectSeq(StripAll(nodes), NonEmpty), <<>>)

(***************************************************************************)
(* clean_text                                                              *)
(***************************************************************************)
replacements ==
    << <<"endash", <<"-">> >>,
       <<"emdash", <<"-">> >>,
       <<"rsquo", <<"'">> >>,
       <<"lsquo", <<"'">> >>,
       <<"ldquo", <<"\"">> >>,
       <<"rdquo", <<"\"">> >>,
       <<"hellip", <<".", ".", ".">> >> >>

Targeted == {replacements[k][1] : k \in 1..Len(replacements)}

\* for unicode_char, ascii_char in replacements.items(): text = text.replace(...)
RECURSIVE ApplyReplacements(_, _)
ApplyReplacements(text, table) ==
    IF table = <<>> THEN text
    ELSE ApplyReplacements(Replace(text, <<Head(table)[1]>>, Head(table)[2]), Tail(table))

\* a clean_text whose table lost the left single quotation mark
CleanTextNoLsquo(text) ==
    IF text = <<>> THEN text
    ELSE ApplyReplacements(text, SelectSeq(replacements, LAMBDA r : r[1] # "lsquo"))

\* clean_text on a str ('' is returned by the "if not text" guard)
CleanText(text) ==
    IF text = <<>> THEN text ELSE ApplyReplacements(text, replacements)

(***************************************************************************)
(* The two regular expressions of parse_itinerary_days.                    *)
(***************************************************************************)
DayWord == <<"D", "a", "y", " ">>

RECURSIVE DigitRunLen(_)
DigitRunLen(s) ==
    IF s # <<>> /\ Head(s) \in Digits THEN 1 + DigitRunLen(Tail(s)) ELSE 0

\* re.match(r'Day (\d+):', s): length of the digit run, 0 when no match.
\* \d+ is greedy and ':' is no digit, so only the whole run can match.
MatchDayAt(s) ==
    IF StartsWith(s, DayWord)
    THEN LET n == DigitRunLen(Drop(s, Len(DayWord)))
         IN  IF n >= 1 /\ Len(s) > Len(DayWord) + n /\ s[Len(DayWord) + n + 1] = ":"
             THEN n ELSE 0
    ELSE 0

\* re.search(r'Day (\d+):', s): the leftmost match anywhere in s
ReSearchDay(s) ==
    LET hits == {i \in 1..Len(s) : MatchDayAt(Drop(s, i - 1)) > 0}
    IN  IF hits = {} THEN [matched |-> FALSE, group1 |-> <<>>]
        ELSE LET p == CHOOSE i \in hits : \A j \in hits : i <= j
                 n == MatchDayAt(Drop(s, p - 1))
             IN  [matched |-> TRUE,
                  group1 |-> SubSeq(s, p + Len(DayWord), p + Len(DayWord) + n - 1)]

\* re.sub(r'^Day \d+:\s*', '', s)
ReSubDayPrefix(s) ==
    IF MatchDayAt(s) = 0 THEN s
    ELSE LStrip(Drop(s, Len(DayWord) + MatchDayAt(s) + 1))

(***************************************************************************)
(* The parsed document (soup).  An element is given by its text nodes:     *)
(*   description  text nodes of div.ao-clp-custom-tdp-itinerary__description*)
(*   hasSection   a section.ao-clp-custom-tdp-itinerary exists             *)
(*   items        the li.js-ao-common-accordion inside it, document order  *)
(*   inclusions   the li.js-ao-common-accordion outside it                 *)
(* An accordion item:                                                      *)
(*   hasTitle, title     text nodes of div.js-ao-common-accordion__title   *)
(*   arrowAt             index of the title node that lies inside the      *)
(*                       nested div.ao-common-accordion__arrow, 0 if none  *)
(*   hasContent          div.ao-common-accordion__bottom-content exists    *)
(*   paragraphs          one text per <p> of the content node              *)
(*   strings             text nodes of a content node with no <p>          *)
(***************************************************************************)

\* lines 109-116: the cleaned title text of a title node
TitleText(item) ==
    LET title_text == GetText(item.title)
        removed == IF item.arrowAt > 0
                   THEN LET arrow_text == GetText(<<item.title[item.arrowAt]>>)
                        IN  Strip(Replace(title_text, arrow_text, <<>>))
                   ELSE title_text
    IN  CleanText(removed)

\* lines 132-141: the body of a content node
BodyText(item) ==
    IF item.hasContent
    THEN LET body_text ==
                 IF item.paragraphs # <<>>
                 THEN Join(StripAll(item.paragraphs), <<" ">>)
                 ELSE GetText(item.strings)
         IN  CleanText(body_text)
    ELSE <<>>

EmptyDayInfo == [icon |-> <<>>, day |-> <<>>, title |-> <<>>, image |-> <<>>, body |-> <<>>]

\* a loop body that appends when either of title and body is non-empty
ParseItemTitleOrBody(item) ==
    IF ~item.hasTitle THEN [append |-> FALSE, day_info |-> EmptyDayInfo]
    ELSE LET title_text == TitleText(item)
             day_match == ReSearchDay(title_text)
         IN  IF ~day_match.matched THEN [append |-> FALSE, day_info |-> EmptyDayInfo]
             ELSE LET day_info == [EmptyDayInfo EXCEPT !.day = day_match.group1,
                                                       !.title = ReSubDayPrefix(title_text),
                                                       !.body = BodyText(item)]
                  IN  [append |-> day_info.title # <<>> \/ day_info.body # <<>>,
                       day_info |-> day_info]

\* lines 97-144: one iteration of the loop over day_items
ParseItem(item) ==
    IF ~item.hasTitle THEN [append |-> FALSE, day_info |-> EmptyDayInfo]
    ELSE LET title_text == TitleText(item)
             day_match == ReSearchDay(title_text)
         IN  IF ~day_match.matched THEN [append |-> FALSE, day_info |-> EmptyDayInfo]
             ELSE LET day_info == [EmptyDayInfo EXCEPT !.day = day_match.group1,
                                                       !.title = ReSubDayPrefix(title_text),
                                                       !.body = BodyText(item)]
                  IN  [append |-> day_info.title # <<>> /\ day_info.body # <<>>,
                       day_info |-> day_info]

RECURSIVE LoopOverItems(_, _)
LoopOverItems(day_items, itinerary_items) ==
    IF day_items = <<>> THEN itinerary_items
    ELSE LET r == ParseItem(Head(day_items))
         IN  LoopOverItems(Tail(day_items),
                           IF r.append THEN Append(itinerary_items, r.day_info)
                           ELSE itinerary_items)

\* a loop that keeps one entry per day number (the later one wins)
RECURSIVE LoopDedupByDay(_, _)
LoopDedupByDay(day_items, itinerary_items) ==
    IF day_items = <<>> THEN itinerary_items
    ELSE LET r == ParseItem(Head(day_items))
             others == SelectSeq(itinerary_items, LAMBDA e : e.day # r.day_info.day)
         IN  LoopDedupByDay(Tail(day_items),
                            IF r.append THEN Append(others, r.day_info)
                            ELSE itinerary_items)

ParseItineraryDaysDedup(soup) ==
    IF ~soup.hasSection THEN <<>> ELSE LoopDedupByDay(soup.items, <<>>)

\* parse_itinerary_days
ParseItineraryDays(soup) ==
    IF ~soup.hasSection THEN <<>> ELSE LoopOverItems(soup.items, <<>>)

\* a summary that keeps the empty fragments
ParseItineraryDescriptionKeepEmpty(soup) ==
    IF soup.hasDescription
    THEN << Join(StripAll(Split(CleanText(GetText(soup.description)), ".")), <<".", " ">>) >>
    ELSE << <<>> >>

\* parse_itinerary_description
ParseItineraryDescription(soup) ==
    IF soup.hasDescription
    THEN LET text == CleanText(GetText(soup.description))
             sentences == SelectSeq(StripAll(Split(text, ".")), NonEmpty)
         IN  << Join(sentences, <<".", " ">>) >>
    ELSE << <<>> >>

(***************************************************************************)
(* Inputs: strings built from a few pieces, and documents built from them. *)
(***************************************************************************)
RECURSIVE PieceStrings(_, _)
PieceStrings(pieces, n) ==
    IF n = 0 THEN {<<>>}
    ELSE LET shorter == PieceStrings(pieces, n - 1)
         IN  shorter \cup {p \o t : p \in pieces, t \in shorter}

RECURSIVE SeqsUpTo(_, _)
SeqsUpTo(S, n) ==
    IF n = 0 THEN {<<>>}
    ELSE LET shorter == SeqsUpTo(S, n - 1)
         IN  shorter \cup {<<x>> \o t : x \in S, t \in shorter}

Item(title, arrowAt, hasContent, paragraphs, strings) ==
    [hasTitle |-> TRUE, title |-> title, arrowAt |-> arrowAt,
     hasContent |-> hasContent, paragraphs |-> paragraphs, strings |-> strings]

NoTitleItem ==
    [hasTitle |-> FALSE, title |-> <<>>, arrowAt |-> 0,
     hasContent |-> TRUE, paragraphs |-> << <<"b">> >>, strings |-> <<>>]

Soup(hasDescription, description, hasSection, items, inclusions) ==
    [hasDescription |-> hasDescription, description |-> description,
     hasSection |-> hasSection, items |-> items, inclusions |-> inclusions]

CleanAlphabet == Targeted \cup {"a", "."}

CleanInputs ==
    {[kind |-> "none"]} \cup {[kind |-> "text", text |-> t] : t \in SeqsUpTo(CleanAlphabet, MaxCleanLen)}

DescPieces == {<<"a">>, <<" ">>, <<".">>, <<"hellip">>, <<"endash">>}

VisitHanoi ==
    <<"V", "i", "s", "i", "t", " ", "H", "a", "n", "o", "i", ".", " ",
      "S", "e", "e", " ", "t", "h", "e", " ", "l", "a", "k", "e", ".", " ",
      "E", "n", "j", "o", "y", ".">>

VisitHanoiSummary ==
    <<"V", "i", "s", "i", "t", " ", "H", "a", "n", "o", "i", ".", " ",
      "S", "e", "e", " ", "t", "h", "e", " ", "l", "a", "k", "e", ".", " ",
      "E", "n", "j", "o", "y">>

PoolDescriptions ==
    { << VisitHanoi >>,
      << <<" ", "a", ".", " ">>, <<"b", "rsquo", ".", ".", " ">> >>,
      << <<"a", "hellip", " ", "b">> >> }

\* documents whose description is one text node built from pieces
DescSoups ==
    {Soup(TRUE, <<t>>, FALSE, <<>>, <<>>) : t \in PieceStrings(DescPieces, MaxDescPieces)}
    \cup {Soup(TRUE, d, FALSE, <<>>, <<>>) : d \in PoolDescriptions}
    \cup {Soup(FALSE, <<>>, FALSE, <<>>, <<>>)}

TitlePieces == {DayWord, <<"1">>, <<":">>, <<" ">>, <<"x">>, <<"endash">>}

ArrowTexts == {<<>>, <<"x">>, <<"1">>}

\* one item whose title is built from pieces, with or without an arrow node
TitleItems ==
    {Item(<<t>>, 0, hc, << <<"b">> >>, <<>>) :
        t \in PieceStrings(TitlePieces, MaxTitlePieces), hc \in BOOLEAN}
    \cup {Item(<<t, a>>, 2, TRUE, << <<"b">> >>, <<>>) :
        t \in PieceStrings(TitlePieces, MaxTitlePieces), a \in ArrowTexts}

ContentTexts == {<<>>, <<" ">>, <<"b">>, <<" ", "c", "rsquo", " ">>}

Day1a == <<"D", "a", "y", " ", "1", ":", " ", "a">>

\* one item titled "Day 1: a" whose content node varies
ContentItems ==
    {Item(<<Day1a>>, 0, TRUE, ps, <<>>) : ps \in SeqsUpTo(ContentTexts, MaxParagraphs)}
    \cup {Item(<<Day1a>>, 0, TRUE, <<>>, ss) : ss \in SeqsUpTo(ContentTexts, MaxParagraphs)}

PoolItems ==
    { Item(<<Day1a>>, 0, TRUE, << <<"b">> >>, <<>>),
      Item(<< <<"D", "a", "y", " ", "2", ":", " ", "v", " ", "c">>, <<"v">> >>, 2, TRUE,
           << <<"d">>, <<"e", "hellip">> >>, <<>>),
      Item(<< <<"D", "a", "y", " ", "1", ":", "e">> >>, 0, TRUE, <<>>, << <<" ", "f", " ">> >>),
      Item(<< <<"H", "i", "g", "h", "l", "i", "g", "h", "t", "s">> >>, 0, TRUE,
           << <<"g">> >>, <<>>),
      NoTitleItem,
      Item(<< <<"D", "a", "y", " ", "3", ":", " ", "h">> >>, 0, TRUE, <<>>, <<>>),
      Item(<< <<"D", "a", "y", " ", "1", "0", ":", " ", "lsquo", "i">> >>, 0, TRUE,
           << <<"j">> >>, <<>>) }

\* documents for parse_itinerary_days
DaySoups ==
    {Soup(FALSE, <<>>, TRUE, <<i>>, <<>>) : i \in TitleItems \cup ContentItems}
    \cup {Soup(FALSE, <<>>, TRUE, is, <<>>) : is \in SeqsUpTo(PoolItems, MaxItems)}
    \cup {Soup(FALSE, <<>>, FALSE, <<>>, is) : is \in SeqsUpTo(PoolItems, 1)}

\* pages a server can answer scrape_tour_info with
Pages ==
    {Soup(TRUE, d, TRUE, is, <<>>) : d \in PoolDescriptions, is \in SeqsUpTo(PoolItems, MaxItems)}
    \cup {Soup(FALSE, <<>>, FALSE, <<>>, is) : is \in SeqsUpTo(PoolItems, 1)}

(***************************************************************************)
(* The extraction core, one call at a time.                                *)
(***************************************************************************)
Pending == [kind |-> "pending"]

NoHtml == [kind |-> "none"]

InitCore ==
    /\ pc = "call"
    /\ \/ op = "clean_text" /\ arg \in CleanInputs
       \/ op = "parse_itinerary_description"
          /\ arg \in {[kind |-> "soup", soup |-> d] : d \in DescSoups}
       \/ op = "parse_itinerary_days"
          /\ arg \in {[kind |-> "soup", soup |-> d] : d \in DaySoups}
    /\ ret = Pending
    /\ log = <<>>
    /\ html = NoHtml

CallCleanText ==
    /\ pc = "call" /\ op = "clean_text"
    /\ ret' = IF arg.kind = "none" THEN [kind |-> "none"]
              ELSE [kind |-> "text", text |-> CleanText(arg.text)]
    /\ pc' = "return"
    /\ UNCHANGED <<op, arg, log, html>>

CallParseItineraryDescription ==
    /\ pc = "call" /\ op = "parse_itinerary_description"
    /\ ret' = [kind |-> "list", list |-> ParseItineraryDescription(arg.soup)]
    /\ pc' = "return"
    /\ UNCHANGED <<op, arg, log, html>>

CallParseItineraryDays ==
    /\ pc = "call" /\ op = "parse_itinerary_days"
    /\ ret' = [kind |-> "list", list |-> ParseItineraryDays(arg.soup)]
    /\ pc' = "return"
    /\ UNCHANGED <<op, arg, log, html>>

NextCore == CallCleanText \/ CallParseItineraryDescription \/ CallParseItineraryDays

SpecCore == InitCore /\ [][NextCore]_vars

(***************************************************************************)
(* Properties of the extraction core (checked under SpecCore).             *)
(***************************************************************************)
DaysReturned == op = "parse_itinerary_days" /\ pc = "return"

DescriptionReturned == op = "parse_itinerary_description" /\ pc = "return"

CleanTextReturned == op = "clean_text" /\ pc = "return"

\* the k-th smallest element of a set of numbers
Kth(S, k) == CHOOSE i \in S : Cardinality({j \in S : j <= i}) = k

\* the characters of t at the positions in keep, in order
Restrict(t, keep) == [k \in 1..Cardinality(keep) |-> t[Kth(keep, k)]]

Blank(t) == \A i \in 1..Len(t) : t[i] \in Whitespace

NoTargeted(t) == \A i \in 1..Len(t) : t[i] \notin Targeted

\* t begins with "Day ", n >= 1 digits and a colon
LeadingDayPrefix(t, n) ==
    /\ Len(t) >= Len(DayWord) + n + 1
    /\ SubSeq(t, 1, Len(DayWord)) = DayWord
    /\ \A k \in (Len(DayWord) + 1)..(Len(DayWord) + n) : t[k] \in Digits
    /\ t[Len(DayWord) + n + 1] = ":"

HasLeadingDayPrefix(t) == \E n \in 1..Len(t) : LeadingDayPrefix(t, n)

\* u is t without its leading whitespace
IsLeftTrimOf(u, t) ==
    \E j \in 0..Len(t) :
        /\ \A k \in 1..j : t[k] \in Whitespace
        /\ j = Len(t) \/ t[j + 1] \notin Whitespace
        /\ u = SubSeq(t, j + 1, Len(t))

OneItem == arg.soup.hasSection /\ Len(arg.soup.items) = 1

\* C1: a candidate with a title node whose cleaned title does not begin with
\* "Day <digits>:" contributes no entry; one whose title does begin with it
\* gets the digit run of that prefix as day and the text after the prefix
\* and the whitespace following it as title.
C1_AnchoredDayPrefix ==
    (DaysReturned /\ OneItem /\ arg.soup.items[1].hasTitle) =>
        LET t == TitleText(arg.soup.items[1])
        IN  IF ~HasLeadingDayPrefix(t) THEN ret.list = <<>>
            ELSE \A k \in 1..Len(ret.list) :
                    \E n \in 1..Len(t) :
                        /\ LeadingDayPrefix(t, n)
                        /\ ret.list[k].day = SubSeq(t, Len(DayWord) + 1, Len(DayWord) + n)
                        /\ IsLeftTrimOf(ret.list[k].title,
                                        SubSeq(t, Len(DayWord) + n + 2, Len(t)))

\* the candidate can have no body: no content node, a content node with no
\* paragraph and only blank text, or a single blank paragraph
NoBody(item) ==
    \/ ~item.hasContent
    \/ item.paragraphs = <<>> /\ \A k \in 1..Len(item.strings) : Blank(item.strings[k])
    \/ Len(item.paragraphs) = 1 /\ Blank(item.paragraphs[1])

\* the cleaned title is a bare "Day <digits>:" prefix
NoTitleLeft(item) ==
    LET t == TitleText(item)
    IN  \E n \in 1..Len(t) :
            LeadingDayPrefix(t, n) /\ Blank(SubSeq(t, Len(DayWord) + n + 2, Len(t)))

Excluded(item) == ~item.hasTitle \/ NoBody(item) \/ NoTitleLeft(item)

\* C2: every returned entry has a non-empty title, a non-empty body, a
\* non-empty all-digit day and empty icon and image; candidates with no title
\* node, an empty title or an empty body are not among the entries.
C2_EntriesComplete ==
    DaysReturned =>
        /\ \A k \in 1..Len(ret.list) :
              LET e == ret.list[k]
              IN  /\ e.title # <<>> /\ e.body # <<>> /\ e.day # <<>>
                  /\ \A i \in 1..Len(e.day) : e.day[i] \in Digits
                  /\ e.icon = <<>> /\ e.image = <<>>
        /\ Len(ret.list) <=
              Cardinality({i \in 1..Len(arg.soup.items) : ~Excluded(arg.soup.items[i])})
        /\ (OneItem /\ Excluded(arg.soup.items[1])) => ret.list = <<>>

C2_Witness ==
    /\ DaysReturned
    /\ Len(arg.soup.items) = 2
    /\ Len(ret.list) = 1
    /\ \E i \in 1..2 : LET it == arg.soup.items[i]
                        IN  /\ it.hasTitle /\ HasLeadingDayPrefix(TitleText(it))
                            /\ it.hasContent /\ it.paragraphs = <<>> /\ it.strings = <<>>

\* C3: the returned entries are those of the accepted items of the itinerary
\* section, one each, in document order; no section gives the empty sequence.
C3_DocumentOrder ==
    DaysReturned =>
        IF ~arg.soup.hasSection THEN ret.list = <<>>
        ELSE LET items == arg.soup.items
                 accepted == {i \in 1..Len(items) : ParseItem(items[i]).append}
             IN  /\ Len(ret.list) = Cardinality(accepted)
                 /\ \A k \in 1..Len(ret.list) :
                       ret.list[k] = ParseItem(items[Kth(accepted, k)]).day_info

C3_Witness ==
    /\ DaysReturned
    /\ Len(ret.list) = 2
    /\ ret.list[1].day = ret.list[2].day
    /\ ret.list[1].title # ret.list[2].title

C3_WitnessNoSection ==
    DaysReturned /\ ~arg.soup.hasSection /\ arg.soup.inclusions # <<>> /\ ret.list = <<>>

\* C4: the summary is one string; empty without a description container;
\* otherwise the trimmed non-empty period-separated fragments of the
\* normalised text joined with ". ", so it never ends with a period and has
\* no empty fragment.
C4_SummaryOneString ==
    DescriptionReturned =>
        /\ Len(ret.list) = 1
        /\ ~arg.soup.hasDescription => ret.list[1] = <<>>
        /\ arg.soup.hasDescription =>
              LET r == ret.list[1]
                  text == CleanText(GetText(arg.soup.description))
                  frags == {i \in 1..Len(Split(text, ".")) : ~Blank(Split(text, ".")[i])}
              IN  /\ r = <<>> <=> frags = {}
                  /\ r # <<>> =>
                        /\ r[Len(r)] # "."
                        /\ r[1] \notin Whitespace /\ r[Len(r)] \notin Whitespace
                        /\ \A i \in 1..Len(r) :
                              r[i] = "." =>
                                  /\ i > 1 /\ r[i - 1] \notin Whitespace \cup {"."}
                                  /\ i + 2 <= Len(r) /\ r[i + 1] = " "
                                  /\ r[i + 2] \notin Whitespace \cup {"."}
                        /\ Len(Split(r, ".")) = Cardinality(frags)
                        /\ \A k \in 1..Cardinality(frags) :
                              Strip(Split(r, ".")[k]) = Strip(Split(text, ".")[Kth(frags, k)])
        /\ arg.soup.description = <<VisitHanoi>> => ret.list = <<VisitHanoiSummary>>

C4_Witness ==
    /\ DescriptionReturned
    /\ arg.soup.hasDescription
    /\ arg.soup.description = <<VisitHanoi>>
    /\ ret.list = <<VisitHanoiSummary>>

\* the documented ASCII equivalent of one character
Ascii(c) ==
    CASE c \in {"endash", "emdash"} -> <<"-">>
      [] c \in {"lsquo", "rsquo"} -> <<"'">>
      [] c \in {"ldquo", "rdquo"} -> <<"\"">>
      [] c = "hellip" -> <<".", ".", ".">>
      [] OTHER -> <<c>>

RECURSIVE InPosition(_)
InPosition(t) == IF t = <<>> THEN <<>> ELSE Ascii(Head(t)) \o InPosition(Tail(t))

\* C5: clean_text replaces each targeted character in position by its ASCII
\* equivalent, leaves none behind, is the identity on absent and empty input
\* and on text with no targeted character; no summary, day, title or body
\* the extractor returns holds a targeted character.
C5_NoTargetedCharacters ==
    /\ CleanTextReturned =>
          IF arg.kind = "none" THEN ret.kind = "none"
          ELSE /\ ret.kind = "text"
               /\ ret.text = InPosition(arg.text)
               /\ NoTargeted(ret.text)
               /\ NoTargeted(arg.text) => ret.text = arg.text
    /\ DescriptionReturned => \A k \in 1..Len(ret.list) : NoTargeted(ret.list[k])
    /\ DaysReturned =>
          \A k \in 1..Len(ret.list) :
              /\ NoTargeted(ret.list[k].day)
              /\ NoTargeted(ret.list[k].title)
              /\ NoTargeted(ret.list[k].body)

C5_Witness ==
    /\ CleanTextReturned
    /\ arg.kind = "text"
    /\ arg.text = <<"lsquo", "hellip">>
    /\ ret.text = <<"'", ".", ".", ".">>

\* the start positions of a in t
Occurrences(t, a) == {i \in 1..Len(t) : StartsWith(Drop(t, i - 1), a)}

\* t with the occurrences of a that start at the positions in S taken out
Without(t, a, S) ==
    Restrict(t, {i \in 1..Len(t) : ~\E p \in S : p <= i /\ i < p + Len(a)})

\* the occurrences a left-to-right scan takes: an occurrence is taken unless
\* it begins inside one taken before it
Taken(t, a) ==
    CHOOSE S \in SUBSET Occurrences(t, a) :
        \A q \in Occurrences(t, a) :
            q \in S <=> ~\E p \in S : p < q /\ q < p + Len(a)

FirstOnly(t, a) ==
    IF Occurrences(t, a) = {} THEN {} ELSE {Kth(Occurrences(t, a), 1)}

WithArrow == DaysReturned /\ OneItem /\ arg.soup.items[1].hasTitle /\ arg.soup.items[1].arrowAt > 0

\* the item with its title replaced by the one text node t and no arrow
Retitled(item, t) == [item EXCEPT !.title = <<t>>, !.arrowAt = 0]

\* C10 as stated: only the first occurrence of the arrow's text is removed from
\* the title text, later ones are kept; an empty arrow text changes nothing.
C10_FirstOccurrenceOnly ==
    WithArrow =>
        LET item == arg.soup.items[1]
            t == GetText(item.title)
            a == GetText(<<item.title[item.arrowAt]>>)
            expected == IF a = <<>> THEN t ELSE Without(t, a, FirstOnly(t, a))
        IN  /\ TitleText(item) = TitleText(Retitled(item, expected))
            /\ ret.list = ParseItineraryDays([arg.soup EXCEPT !.items = <<Retitled(item, expected)>>])

\* C10 amended: every occurrence of the arrow's text a left-to-right scan
\* finds is removed from the title text before trimming and normalising; an
\* empty arrow text changes nothing.
C10_EveryOccurrence ==
    WithArrow =>
        LET item == arg.soup.items[1]
            t == GetText(item.title)
            a == GetText(<<item.title[item.arrowAt]>>)
            expected == IF a = <<>> THEN t ELSE Without(t, a, Taken(t, a))
        IN  /\ TitleText(item) = TitleText(Retitled(item, expected))
            /\ ret.list = ParseItineraryDays([arg.soup EXCEPT !.items = <<Retitled(item, expected)>>])

C10_Witness ==
    /\ WithArrow
    /\ LET item == arg.soup.items[1]
           a == GetText(<<item.title[item.arrowAt]>>)
       IN  /\ a # <<>>
           /\ Cardinality(Occurrences(GetText(item.title), a)) >= 2
    /\ Len(ret.list) = 1
    /\ ret.list[1].title = <<"c">>

(***************************************************************************)
(* scrape_tour_info: the robots probe, the page fetch, the extraction.     *)
(* log records, in order, the session.get and time.sleep calls and the     *)
(* calls of the two extractors.                                            *)
(***************************************************************************)
Event(call, target, outcome) == [call |-> call, target |-> target, outcome |-> outcome]

Get(target, outcome) == Event("get", target, outcome)

Sleep == Event("sleep", "", "")

\* what session.get(robots_url, timeout=10) can do: a status, or an exception
RobotsOutcomes == {"200", "404", "timeout", "connection_error"}

\* what session.get(url, timeout=30) and raise_for_status() can do
PageFailures == {"http_error", "timeout", "connection_error"}

Failed(cause) == [kind |-> "error", prefix |-> "Failed to fetch page: ", cause |-> cause]

Init ==
    /\ pc = "check_robots"
    /\ op = "scrape_tour_info"
    /\ arg = [kind |-> "url"]
    /\ ret = Pending
    /\ log = <<>>
    /\ html = NoHtml

\* a probe whose exceptions escape
CheckRobotsTxtRaises ==
    /\ pc = "check_robots"
    /\ \E o \in RobotsOutcomes :
          /\ log' = log \o <<Get("robots", o)>> \o (IF o = "200" THEN <<Sleep>> ELSE <<>>)
          /\ IF o \in {"timeout", "connection_error"}
             THEN pc' = "raised" /\ ret' = Failed(o)
             ELSE pc' = "fetch_page" /\ ret' = ret
    /\ UNCHANGED <<op, arg, html>>

\* lines 150-155: base_url, then check_robots_txt(base_url), result ignored
CheckRobotsTxt ==
    /\ pc = "check_robots"
    /\ \E o \in RobotsOutcomes :
          log' = log \o <<Get("robots", o)>> \o (IF o = "200" THEN <<Sleep>> ELSE <<>>)
    /\ pc' = "fetch_page"
    /\ UNCHANGED <<op, arg, ret, html>>

\* a fetch that answers a failure with empty markup
FetchPageSwallows ==
    /\ pc = "fetch_page"
    /\ \E o \in PageFailures \cup {"200"} :
          /\ log' = log \o <<Sleep, Get("page", o)>>
          /\ IF o = "200"
             THEN \E d \in Pages : html' = [kind |-> "soup", soup |-> d]
             ELSE html' = [kind |-> "soup", soup |-> Soup(FALSE, <<>>, FALSE, <<>>, <<>>)]
          /\ pc' = "extract" /\ ret' = ret
    /\ UNCHANGED <<op, arg>>

\* a fetch that tries a second time after a failure
FetchPageRetries ==
    /\ pc = "fetch_page"
    /\ \E o \in PageFailures \cup {"200"} :
          IF o = "200"
          THEN /\ log' = log \o <<Sleep, Get("page", o)>>
               /\ \E d \in Pages : html' = [kind |-> "soup", soup |-> d]
               /\ pc' = "extract" /\ ret' = ret
          ELSE /\ log' = log \o <<Sleep, Get("page", o), Sleep, Get("page", o)>>
               /\ pc' = "raised" /\ ret' = Failed(o) /\ html' = html
    /\ UNCHANGED <<op, arg>>

\* a fetch that sleeps after the request instead of before it
FetchPageSleepsAfter ==
    /\ pc = "fetch_page"
    /\ \E o \in PageFailures \cup {"200"} :
          /\ log' = log \o <<Get("page", o), Sleep>>
          /\ IF o = "200"
             THEN /\ \E d \in Pages : html' = [kind |-> "soup", soup |-> d]
                  /\ pc' = "extract" /\ ret' = ret
             ELSE pc' = "raised" /\ ret' = Failed(o) /\ html' = html
    /\ UNCHANGED <<op, arg>>

\* lines 157-158: fetch_page(url)
FetchPage ==
    /\ pc = "fetch_page"
    /\ \E o \in PageFailures \cup {"200"} :
          /\ log' = log \o <<Sleep, Get("page", o)>>
          /\ IF o = "200"
             THEN /\ \E d \in Pages : html' = [kind |-> "soup", soup |-> d]
                  /\ pc' = "extract" /\ ret' = ret
             ELSE pc' = "raised" /\ ret' = Failed(o) /\ html' = html
    /\ UNCHANGED <<op, arg>>

\* lines 160-175: parse the markup, extract summary and itinerary, return
ExtractAndReturn ==
    /\ pc = "extract"
    /\ log' = log \o <<Event("parse_itinerary_description", "", ""),
                        Event("parse_itinerary_days", "", "")>>
    /\ ret' = [kind |-> "result",
               summary |-> ParseItineraryDescription(html.soup),
               itinerary |-> ParseItineraryDays(html.soup)]
    /\ pc' = "returned"
    /\ UNCHANGED <<op, arg, html>>

Next == CheckRobotsTxt \/ FetchPage \/ ExtractAndReturn

Spec == Init /\ [][Next]_vars

(***************************************************************************)
(* Properties of scrape_tour_info (checked under Spec).                    *)
(***************************************************************************)
Gets(target) == {i \in 1..Len(log) : log[i].call = "get" /\ log[i].target = target}

AllGets == {i \in 1..Len(log) : log[i].call = "get"}

Extractions == {i \in 1..Len(log) : log[i].call \in {"parse_itinerary_description", "parse_itinerary_days"}}

Finished == pc \in {"returned", "raised"}

PageFailed == \E i \in Gets("page") : log[i].outcome # "200"

\* C6: a failed page fetch aborts the call with an error carrying the cause,
\* after one page request, with no extraction run and no record returned;
\* once markup is obtained the call returns a record.
C6_FetchFailureAborts ==
    /\ PageFailed =>
          /\ pc = "raised"
          /\ ret.kind = "error"
          /\ Cardinality(Gets("page")) = 1
          /\ \A i \in Gets("page") : ret.cause = log[i].outcome
          /\ Extractions = {}
          /\ html = NoHtml
    /\ pc = "raised" => PageFailed
    /\ pc = "extract" => html.kind = "soup" /\ ret = Pending
    /\ pc = "returned" =>
          /\ ret.kind = "result"
          /\ Len(ret.summary) = 1
          /\ Cardinality(Gets("page")) = 1

C6_Witness ==
    /\ pc = "raised"
    /\ ret = Failed("http_error")
    /\ log[Len(log)] = Get("page", "http_error")

\* C7: whatever the robots probe does, no error of it surfaces, the page
\* fetch is attempted after it, and the result is that of the page alone.
C7_ProbeFailureSwallowed ==
    /\ (Gets("robots") # {} /\ Gets("page") = {}) => pc = "fetch_page"
    /\ Finished =>
          /\ Gets("robots") # {} /\ Gets("page") # {}
          /\ \A i \in Gets("robots") : \A j \in Gets("page") : i < j
    /\ pc = "raised" => \A j \in Gets("page") : ret = Failed(log[j].outcome)
    /\ pc = "returned" =>
          ret = [kind |-> "result",
                 summary |-> ParseItineraryDescription(html.soup),
                 itinerary |-> ParseItineraryDays(html.soup)]

C7_Witness ==
    /\ pc = "returned"
    /\ log[1] = Get("robots", "timeout")
    /\ ret.itinerary # <<>>

\* C8 as stated: a finished call has issued exactly one request.
C8_ExactlyOneRequest == Finished => Cardinality(AllGets) = 1

\* C8 amended: a finished call has issued exactly two requests, the robots
\* probe and then the one page request.
C8_ProbeThenOnePageRequest ==
    /\ Cardinality(Gets("robots")) <= 1 /\ Cardinality(Gets("page")) <= 1
    /\ Finished =>
          /\ Cardinality(AllGets) = 2
          /\ Cardinality(Gets("robots")) = 1 /\ Cardinality(Gets("page")) = 1
          /\ \A i \in Gets("robots") : \A j \in Gets("page") : i < j

C8_Witness ==
    /\ pc = "raised"
    /\ Cardinality(AllGets) = 2
    /\ log[1] = Get("robots", "404")

\* C9 as stated: every request is immediately preceded by a delay.
C9_DelayBeforeEveryRequest ==
    \A i \in AllGets : i > 1 /\ log[i - 1] = Sleep

\* C9 amended: the page request is immediately preceded by a delay; the
\* robots probe is the first step of the call, with no delay before it, and
\* is followed by a delay of its own exactly when its status is 200.
C9_DelayBeforePageRequest ==
    /\ \A j \in Gets("page") : j > 1 /\ log[j - 1] = Sleep
    /\ \A i \in Gets("robots") :
          /\ i = 1
          /\ pc # "check_robots" =>
                IF log[i].outcome = "200"
                THEN Len(log) >= 3 => (log[2] = Sleep /\ log[3] = Sleep)
                ELSE Len(log) >= 3 => (log[2] = Sleep /\ log[3].call = "get")
    /\ pc # "check_robots" => Gets("robots") # {}

C9_Witness ==
    /\ pc = "returned"
    /\ SubSeq(log, 1, 3) = <<Get("robots", "connection_error"), Sleep, Get("page", "200")>>

====
